---- MODULE Spec2Model ----
(***************************************************************************)
(* Model of scripts/create_placeholder_icons.py: the placeholder icon      *)
(* generator of the Orchard app.  The script is run as a process (module   *)
(* import, main(), one create_placeholder_icon call per entry of           *)
(* icon_sizes), and create_placeholder_icon is also checked on its own for *)
(* every size of a bounded range.                                          *)
(*                                                                         *)
(* The environment is what the script reads: whether Pillow is installed,  *)
(* which of the three font files exist, how ImageFont.truetype answers,    *)
(* the output directory and its files, and whether makedirs / save fail.   *)
(* Pillow is modelled by its documented contract: ImageFont.truetype       *)
(* raises ImportError without FreeType support, ValueError when the font   *)
(* size is not greater than zero, OSError when the file cannot be read.    *)
(***************************************************************************)
EXTENDS Integers, Sequences, FiniteSets, TLC

VARIABLES
    pc,            \* position of the process: import, main, setup, loop, exited;
                   \* call / returned / raised for a direct call
    pilInstalled,  \* is the PIL package importable
    fontExists,    \* the font paths for which os.path.exists is true
    truetypeEnv,   \* how ImageFont.truetype answers on a readable size
    dirExists,     \* does app_icon_dir exist
    files,         \* path -> content, the files of the output directory
    stdout,        \* lines printed by this process
    exitStatus,    \* exit status once pc = "exited"
    uncaught,      \* the exception that ended the process, "none" if none
    idx,           \* 1-based position of the for loop in icon_sizes
    lastIcon,      \* what the last create_placeholder_icon call did
    arg,           \* size argument of a direct call
    run,           \* how many times the script has been started
    calls,         \* history: sizes create_placeholder_icon was called with
    written,       \* history: paths saved by this process
    startFiles,    \* history: the files when this process started
    startDir,      \* history: did app_icon_dir exist when this process started
    prevFiles,     \* history: the files when the previous process ended
    prevOk,        \* history: the previous process ended with status 0
    ioFault,       \* history: makedirs or save failed in this process
    failedAt       \* history: loop position whose save failed, 0 if none

vars == <<pc, pilInstalled, fontExists, truetypeEnv, dirExists, files, stdout,
          exitStatus, uncaught, idx, lastIcon, arg, run, calls, written,
          startFiles, startDir, prevFiles, prevOk, ioFault, failedAt>>

(***************************************************************************)
(* Bounds                                                                  *)
(***************************************************************************)
MaxSize == 1030
MaxRuns == 2

(***************************************************************************)
(* Helpers                                                                 *)
(***************************************************************************)
Max(a, b) == IF a >= b THEN a ELSE b

Range(s) == {s[i] : i \in 1..Len(s)}

EmptyDir == [p \in {} |-> 0]

PathJoin(dir, name) == dir \o "/" \o name

(***************************************************************************)
(* create_placeholder_icon                                                 *)
(***************************************************************************)
Background == <<52, 120, 246, 255>>

ImageNew(size) ==
    [width |-> size, height |-> size, fill |-> Background]

BorderWidth_nomax(size) == size \div 64

BorderWidth(size) == Max(1, size \div 64)

FontSize(size) ==
    IF size >= 128 THEN size \div 8
    ELSE IF size >= 64 THEN size \div 6
    ELSE size \div 4

font_paths ==
    << "/System/Library/Fonts/Helvetica.ttc",
       "/System/Library/Fonts/Arial.ttf",
       "/usr/share/fonts/truetype/liberation/LiberationSans-Regular.ttf" >>

NoFont == [kind |-> "none", path |-> "", size |-> 0]

LoadDefault == [kind |-> "default", path |-> "", size |-> 0]

TruetypeEnvs == {"ok", "OSError", "ImportError"}

\* ImageFont.truetype(font_path, font_size)
Truetype(font_path, font_size, env) ==
    IF env = "ImportError"
    THEN [raised |-> "ImportError", font |-> NoFont]
    ELSE IF font_size <= 0
    THEN [raised |-> "ValueError", font |-> NoFont]
    ELSE IF env = "OSError"
    THEN [raised |-> "OSError", font |-> NoFont]
    ELSE [raised |-> "none",
          font |-> [kind |-> "truetype", path |-> font_path, size |-> font_size]]

\* index of the path the for loop stops at, 0 when it runs to the end
FirstExisting(exists) ==
    IF \E k \in 1..Len(font_paths) : font_paths[k] \in exists
    THEN CHOOSE k \in 1..Len(font_paths) :
            /\ font_paths[k] \in exists
            /\ \A j \in 1..(k - 1) : font_paths[j] \notin exists
    ELSE 0

InnerCaught == {"OSError", "IOError"}

OuterCaught == {"ImportError"}

\* the try / except blocks of the font selection
SelectFont(size, exists, env) ==
    LET font_size == FontSize(size)
        k == FirstExisting(exists)
        loaded == IF k = 0
                  THEN [raised |-> "none", font |-> NoFont]
                  ELSE Truetype(font_paths[k], font_size, env)
        attempted == IF k = 0 THEN <<>> ELSE <<font_paths[k]>>
    IN  IF k = 0
        THEN [raised |-> "none", font |-> LoadDefault,
              font_size |-> font_size, attempted |-> attempted]
        ELSE IF loaded.raised = "none"
        THEN [raised |-> "none", font |-> loaded.font,
              font_size |-> font_size, attempted |-> attempted]
        ELSE IF loaded.raised \in InnerCaught
        THEN [raised |-> "none", font |-> LoadDefault,
              font_size |-> font_size, attempted |-> attempted]
        ELSE IF loaded.raised \in OuterCaught
        THEN [raised |-> "none", font |-> LoadDefault,
              font_size |-> font_size, attempted |-> attempted]
        ELSE [raised |-> loaded.raised, font |-> NoFont,
              font_size |-> font_size, attempted |-> attempted]

LabelText_off(size) == IF size > 64 THEN "OR" ELSE "O"

LabelText(size) == IF size >= 64 THEN "OR" ELSE "O"

ShadowOffset_nomax(size) == size \div 128

ShadowOffset(size) == Max(1, size \div 128)

\* what draw.textbbox((0, 0), text, font=font) can return: (left, top, right,
\* bottom) of the rendered text, here a narrow and a wide box
BBoxes == {<<0, 0, 6, 11>>, <<1, 3, 14, 12>>}

SaveOutcomes == {"ok", "open_failed", "write_failed"}

Png(img) == [valid |-> TRUE, width |-> img.width, height |-> img.height]

Truncated == [valid |-> FALSE, width |-> 0, height |-> 0]

Save_swallow(fs, output_path, img, outcome) ==
    IF outcome = "ok"
    THEN [raised |-> "none", files |-> (output_path :> Png(img)) @@ fs]
    ELSE [raised |-> "none", files |-> fs]

\* img.save(output_path, 'PNG'): the file is opened for writing, then encoded
Save(fs, output_path, img, outcome) ==
    IF outcome = "ok"
    THEN [raised |-> "none", files |-> (output_path :> Png(img)) @@ fs]
    ELSE IF outcome = "open_failed"
    THEN [raised |-> "OSError", files |-> fs]
    ELSE [raised |-> "OSError",
          files |-> IF output_path \in DOMAIN fs
                    THEN (output_path :> Truncated) @@ fs
                    ELSE fs]

CreatedLine(size, output_path) ==
    "Created " \o ToString(size) \o "x" \o ToString(size)
               \o " icon: " \o output_path

DrawOp(op, xy, text, fill, width) ==
    [op |-> op, xy |-> xy, text |-> text, fill |-> fill, width |-> width]

\* the two draw.text calls
TextOps(x, y, shadow_offset, text) ==
    (IF shadow_offset > 0
     THEN <<DrawOp("text", <<x + shadow_offset, y + shadow_offset>>,
                   text, <<0, 0, 0, 100>>, 0)>>
     ELSE <<>>)
    \o <<DrawOp("text", <<x, y>>, text, <<255, 255, 255, 255>>, 0)>>

NoIcon ==
    [size |-> 0, raised |-> "none", border_width |-> 0, font_size |-> 0,
     font |-> NoFont, attempted |-> <<>>, text |-> "", x |-> 0, y |-> 0,
     shadow_offset |-> 0, ops |-> <<>>, saved |-> FALSE]

CreatePlaceholderIcon(size, output_path, exists, env, bbox, outcome, fs) ==
    LET img == ImageNew(size)
        border_width == BorderWidth(size)
        border == DrawOp("rectangle", <<0, 0, size - 1, size - 1>>, "",
                         <<30, 90, 200, 255>>, border_width)
        sel == SelectFont(size, exists, env)
        text == LabelText(size)
        text_width == bbox[3] - bbox[1]
        text_height == bbox[4] - bbox[2]
        x == (size - text_width) \div 2
        y == (size - text_height) \div 2
        shadow_offset == ShadowOffset(size)
        ops == <<border>> \o TextOps(x, y, shadow_offset, text)
        sv == Save(fs, output_path, img, outcome)
    IN  IF sel.raised # "none"
        THEN [icon |-> [NoIcon EXCEPT !.size = size,
                                      !.raised = sel.raised,
                                      !.border_width = border_width,
                                      !.font_size = sel.font_size,
                                      !.attempted = sel.attempted,
                                      !.ops = <<border>>],
              files |-> fs, printed |-> <<>>]
        ELSE [icon |-> [size |-> size, raised |-> sv.raised,
                        border_width |-> border_width,
                        font_size |-> sel.font_size, font |-> sel.font,
                        attempted |-> sel.attempted, text |-> text,
                        x |-> x, y |-> y, shadow_offset |-> shadow_offset,
                        ops |-> ops, saved |-> (sv.raised = "none")],
              files |-> sv.files,
              printed |-> IF sv.raised = "none"
                          THEN <<CreatedLine(size, output_path)>>
                          ELSE <<>>]

(***************************************************************************)
(* main                                                                    *)
(***************************************************************************)
icon_sizes_dup ==
    << <<16, "icon_16x16.png">>,
       <<32, "icon_32x32.png">>,
       <<64, "icon_32x32.png">>,
       <<128, "icon_128x128.png">>,
       <<256, "icon_256x256.png">>,
       <<512, "icon_512x512.png">>,
       <<1024, "icon_1024x1024.png">> >>

icon_sizes_swapped ==
    << <<16, "icon_16x16.png">>,
       <<32, "icon_32x32.png">>,
       <<128, "icon_128x128.png">>,
       <<64, "icon_64x64.png">>,
       <<256, "icon_256x256.png">>,
       <<512, "icon_512x512.png">>,
       <<1024, "icon_1024x1024.png">> >>

icon_sizes ==
    << <<16, "icon_16x16.png">>,
       <<32, "icon_32x32.png">>,
       <<64, "icon_64x64.png">>,
       <<128, "icon_128x128.png">>,
       <<256, "icon_256x256.png">>,
       <<512, "icon_512x512.png">>,
       <<1024, "icon_1024x1024.png">> >>

app_icon_dir == "scripts/../Orchard/Assets.xcassets/AppIcon.appiconset"

OutputPath(i) == PathJoin(app_icon_dir, icon_sizes[i][2])

Makedirs_strict(exists, ok) ==
    IF exists THEN [raised |-> "FileExistsError", dirExists |-> exists]
    ELSE IF ok THEN [raised |-> "none", dirExists |-> TRUE]
    ELSE [raised |-> "OSError", dirExists |-> exists]

\* os.makedirs(app_icon_dir, exist_ok=True)
Makedirs(exists, ok) ==
    IF exists THEN [raised |-> "none", dirExists |-> TRUE]
    ELSE IF ok THEN [raised |-> "none", dirExists |-> TRUE]
    ELSE [raised |-> "OSError", dirExists |-> exists]

ErrorLines ==
    << "Error: Pillow library is required.",
       "Install it with: pip install Pillow" >>

StartLines ==
    << "Generating placeholder app icons for Orchard...",
       "Output directory: " \o app_icon_dir,
       "" >>

SuccessLine == "Placeholder icons generated successfully!"

FinishLines ==
    << "",
       SuccessLine,
       "",
       "Your app should now build without icon errors.",
       "To create proper app icons, see the ICON_GUIDE.md file." >>

StaleIcon == [valid |-> TRUE, width |-> 8, height |-> 8]

\* the output directory before the first run
InitialDirs ==
    { [dirExists |-> FALSE, files |-> EmptyDir],
      [dirExists |-> TRUE, files |-> EmptyDir],
      [dirExists |-> TRUE,
       files |-> (PathJoin(app_icon_dir, "Contents.json") :> StaleIcon)],
      [dirExists |-> TRUE,
       files |-> (PathJoin(app_icon_dir, "icon_64x64.png") :> StaleIcon)] }

FontEnvInit ==
    /\ fontExists \in SUBSET Range(font_paths)
    /\ truetypeEnv \in TruetypeEnvs

Init ==
    /\ pc = "import"
    /\ pilInstalled \in BOOLEAN
    /\ FontEnvInit
    /\ \E d \in InitialDirs :
          /\ dirExists = d.dirExists
          /\ files = d.files
          /\ startFiles = d.files
          /\ startDir = d.dirExists
          /\ prevFiles = d.files
    /\ stdout = <<>>
    /\ exitStatus = 0
    /\ uncaught = "none"
    /\ idx = 1
    /\ lastIcon = NoIcon
    /\ arg = 0
    /\ run = 1
    /\ calls = <<>>
    /\ written = {}
    /\ prevOk = FALSE
    /\ ioFault = FALSE
    /\ failedAt = 0

\* the interpreter ends the process on an exception nobody caught
Abort(exc) ==
    /\ pc' = "exited"
    /\ exitStatus' = 1
    /\ uncaught' = exc

\* lines 16-18: the imports at module level
ModuleImport ==
    /\ pc = "import"
    /\ IF pilInstalled
       THEN /\ pc' = "main"
            /\ UNCHANGED <<exitStatus, uncaught>>
       ELSE Abort("ImportError")
    /\ UNCHANGED <<pilInstalled, fontExists, truetypeEnv, dirExists, files,
                   stdout, idx, lastIcon, arg, run, calls, written,
                   startFiles, startDir, prevFiles, prevOk, ioFault, failedAt>>

\* lines 91-97: the Pillow check of main
MainCheck ==
    /\ pc = "main"
    /\ IF pilInstalled
       THEN /\ pc' = "setup"
            /\ UNCHANGED <<stdout, exitStatus, uncaught>>
       ELSE /\ stdout' = stdout \o ErrorLines
            /\ pc' = "exited"
            /\ exitStatus' = 1
            /\ UNCHANGED uncaught
    /\ UNCHANGED <<pilInstalled, fontExists, truetypeEnv, dirExists, files,
                   idx, lastIcon, arg, run, calls, written,
                   startFiles, startDir, prevFiles, prevOk, ioFault, failedAt>>

\* lines 99-119: the output directory and the starting banner
MainSetup ==
    /\ pc = "setup"
    /\ \E ok \in BOOLEAN :
          LET m == Makedirs(dirExists, ok)
          IN  /\ dirExists' = m.dirExists
              /\ ioFault' = (ioFault \/ (~dirExists /\ ~ok))
              /\ IF m.raised = "none"
                 THEN /\ stdout' = stdout \o StartLines
                      /\ pc' = "loop"
                      /\ UNCHANGED <<exitStatus, uncaught>>
                 ELSE /\ Abort(m.raised)
                      /\ UNCHANGED stdout
    /\ idx' = 1
    /\ UNCHANGED <<pilInstalled, fontExists, truetypeEnv, files,
                   lastIcon, arg, run, calls, written,
                   startFiles, startDir, prevFiles, prevOk, failedAt>>

\* lines 121-124: one iteration of the for loop
MainLoop ==
    /\ pc = "loop"
    /\ idx <= Len(icon_sizes)
    /\ \E bbox \in BBoxes, outcome \in SaveOutcomes :
          LET size == icon_sizes[idx][1]
              output_path == OutputPath(idx)
              r == CreatePlaceholderIcon(size, output_path, fontExists,
                                         truetypeEnv, bbox, outcome, files)
          IN  /\ lastIcon' = r.icon
              /\ files' = r.files
              /\ stdout' = stdout \o r.printed
              /\ calls' = Append(calls, size)
              /\ ioFault' = (ioFault \/ (r.icon.font.kind # "none" /\ outcome # "ok"))
              /\ failedAt' = IF r.icon.font.kind # "none" /\ outcome # "ok"
                             THEN idx ELSE failedAt
              /\ IF r.icon.raised = "none"
                 THEN /\ idx' = idx + 1
                      /\ written' = written \cup {output_path}
                      /\ UNCHANGED <<pc, exitStatus, uncaught>>
                 ELSE /\ Abort(r.icon.raised)
                      /\ UNCHANGED <<idx, written>>
    /\ UNCHANGED <<pilInstalled, fontExists, truetypeEnv, dirExists, arg, run,
                   startFiles, startDir, prevFiles, prevOk>>

\* lines 126-130: the completion banner, then the process ends
MainFinish ==
    /\ pc = "loop"
    /\ idx > Len(icon_sizes)
    /\ stdout' = stdout \o FinishLines
    /\ pc' = "exited"
    /\ exitStatus' = 0
    /\ UNCHANGED <<pilInstalled, fontExists, truetypeEnv, dirExists, files,
                   uncaught, idx, lastIcon, arg, run, calls, written,
                   startFiles, startDir, prevFiles, prevOk, ioFault, failedAt>>

\* the script is started again on the directory the last run left
Rerun ==
    /\ pc = "exited"
    /\ run < MaxRuns
    /\ pc' = "import"
    /\ run' = run + 1
    /\ stdout' = <<>>
    /\ exitStatus' = 0
    /\ uncaught' = "none"
    /\ idx' = 1
    /\ lastIcon' = NoIcon
    /\ calls' = <<>>
    /\ written' = {}
    /\ startFiles' = files
    /\ startDir' = dirExists
    /\ prevFiles' = files
    /\ prevOk' = (exitStatus = 0 /\ uncaught = "none")
    /\ ioFault' = FALSE
    /\ failedAt' = 0
    /\ UNCHANGED <<pilInstalled, fontExists, truetypeEnv, dirExists, files, arg>>

Next ==
    \/ ModuleImport
    \/ MainCheck
    \/ MainSetup
    \/ MainLoop
    \/ MainFinish
    \/ Rerun

Spec == Init /\ [][Next]_vars

(***************************************************************************)
(* create_placeholder_icon called on its own, for every size of 1..MaxSize *)
(***************************************************************************)
IconPath == "out.png"

InitIcon ==
    /\ pc = "call"
    /\ arg \in 1..MaxSize
    /\ pilInstalled = TRUE
    /\ FontEnvInit
    /\ dirExists = TRUE
    /\ files = EmptyDir
    /\ startFiles = EmptyDir
    /\ startDir = TRUE
    /\ prevFiles = EmptyDir
    /\ stdout = <<>>
    /\ exitStatus = 0
    /\ uncaught = "none"
    /\ idx = 1
    /\ lastIcon = NoIcon
    /\ run = 1
    /\ calls = <<>>
    /\ written = {}
    /\ prevOk = FALSE
    /\ ioFault = FALSE
    /\ failedAt = 0

IconCall ==
    /\ pc = "call"
    /\ \E bbox \in BBoxes, outcome \in SaveOutcomes :
          LET r == CreatePlaceholderIcon(arg, IconPath, fontExists,
                                         truetypeEnv, bbox, outcome, files)
          IN  /\ lastIcon' = r.icon
              /\ files' = r.files
              /\ stdout' = stdout \o r.printed
              /\ calls' = Append(calls, arg)
              /\ ioFault' = (r.icon.font.kind # "none" /\ outcome # "ok")
              /\ uncaught' = r.icon.raised
              /\ pc' = IF r.icon.raised = "none" THEN "returned" ELSE "raised"
              /\ written' = IF r.icon.raised = "none" THEN {IconPath} ELSE {}
    /\ UNCHANGED <<pilInstalled, fontExists, truetypeEnv, dirExists,
                   exitStatus, idx, arg, run, startFiles, startDir, prevFiles,
                   prevOk, failedAt>>

NextIcon == IconCall

SpecIcon == InitIcon /\ [][NextIcon]_vars

(***************************************************************************)
(* Properties                                                              *)
(***************************************************************************)
SevenSizes == {16, 32, 64, 128, 256, 512, 1024}

SizeList == <<16, 32, 64, 128, 256, 512, 1024>>

IconName(s) == "icon_" \o ToString(s) \o "x" \o ToString(s) \o ".png"

IconFile(s) == PathJoin(app_icon_dir, IconName(s))

Square(s) == [valid |-> TRUE, width |-> s, height |-> s]

SaveReached == lastIcon.font.kind # "none"

\* C1: a run of main() that starts on an empty target directory and meets no
\* I/O failure ends with status 0 and leaves exactly the seven files
\* icon_{s}x{s}.png, s in {16, 32, 64, 128, 256, 512, 1024}, the file of size
\* s holding an s by s image, and nothing else.
C1_SevenIcons ==
    (pc = "exited" /\ pilInstalled /\ ~ioFault /\ DOMAIN startFiles = {}) =>
        /\ exitStatus = 0
        /\ uncaught = "none"
        /\ DOMAIN files = {IconFile(s) : s \in SevenSizes}
        /\ \A s \in SevenSizes : files[IconFile(s)] = Square(s)

C1_Witness ==
    /\ pc = "exited"
    /\ pilInstalled
    /\ ~ioFault
    /\ DOMAIN startFiles = {}
    /\ ~startDir
    /\ Cardinality(DOMAIN files) = 7
    /\ files[IconFile(1024)] = Square(1024)

\* C2: when Pillow is not installed, the process prints the script's error
\* message, exits with status 1 and creates neither the output directory nor
\* any file.
C2_MissingPillowMessage ==
    (~pilInstalled /\ pc = "exited") =>
        /\ \A i \in 1..Len(ErrorLines) : ErrorLines[i] \in Range(stdout)
        /\ exitStatus = 1
        /\ files = startFiles
        /\ dirExists = startDir

\* C3: font loading failures never leave create_placeholder_icon: for every
\* size > 0, every set of existing font paths and every answer of the load,
\* the call ends with a font selected (truetype or the built-in default), has
\* drawn the label, and, unless the save itself fails, has written the file.
C3_FontFailureAbsorbed ==
    (pc \in {"returned", "raised"}) =>
        /\ lastIcon.font.kind \in {"truetype", "default"}
        /\ \E i \in 1..Len(lastIcon.ops) :
              /\ lastIcon.ops[i].op = "text"
              /\ lastIcon.ops[i].fill = <<255, 255, 255, 255>>
        /\ (~ioFault => (pc = "returned" /\ IconPath \in DOMAIN files))

\* C4: a second run of main() after a successful one finds the directory
\* present, raises no error, overwrites each of the seven files and leaves
\* the files as the first run left them; the directory exists once the
\* set-up of any run is through.
C4_SecondRunIdempotent ==
    /\ (pc = "loop") => dirExists
    /\ (run >= 2 /\ prevOk) => dirExists
    /\ (run >= 2 /\ prevOk /\ pc = "exited" /\ ~ioFault) =>
          /\ exitStatus = 0
          /\ uncaught = "none"
          /\ written = {IconFile(s) : s \in SevenSizes}
          /\ files = prevFiles
          /\ \A s \in SevenSizes : files[IconFile(s)] = Square(s)

C4_Witness ==
    /\ run = 2
    /\ prevOk
    /\ pc = "exited"
    /\ ~ioFault
    /\ exitStatus = 0
    /\ Cardinality(written) = 7
    /\ files = prevFiles

\* C5: main() calls create_placeholder_icon once per entry of the list, in
\* the order 16, 32, 64, 128, 256, 512, 1024; the file of an entry is
\* written before the next call begins, so the icons written so far are
\* always a prefix of the list.
C5_ListOrderPrefix ==
    /\ Len(calls) <= Len(SizeList)
    /\ calls = SubSeq(SizeList, 1, Len(calls))
    /\ \E n \in {Len(calls), Len(calls) - 1} :
          /\ n >= 0
          /\ written = {IconFile(SizeList[i]) : i \in 1..n}
    /\ \A i \in 1..Cardinality(written) :
          /\ IconFile(SizeList[i]) \in DOMAIN files
          /\ files[IconFile(SizeList[i])] = Square(SizeList[i])
    /\ (pc = "loop") =>
          /\ Len(calls) = idx - 1
          /\ Cardinality(written) = idx - 1
    /\ (pc = "exited" /\ uncaught = "none" /\ pilInstalled) => calls = SizeList

C5_Witness ==
    /\ pc = "loop"
    /\ idx = 4
    /\ calls = <<16, 32, 64>>
    /\ Cardinality(written) = 3

\* C6: for every size > 0 the label is "O" when size < 64 and "OR" when
\* size >= 64, whatever font was selected, and both draw.text calls use it.
C6_Label ==
    (pc \in {"returned", "raised"} /\ SaveReached) =>
        /\ (arg < 64) => lastIcon.text = "O"
        /\ (arg >= 64) => lastIcon.text = "OR"
        /\ \A i \in 1..Len(lastIcon.ops) :
              lastIcon.ops[i].op = "text" => lastIcon.ops[i].text = lastIcon.text

C6_Witness ==
    /\ pc = "returned"
    /\ arg = 64
    /\ lastIcon.text = "OR"
    /\ lastIcon.font.kind = "default"

\* C7: for every size > 0 the border width is max(1, size // 64): 1 below
\* 128, never 0, and 16 for size 1024.
C7_BorderWidth ==
    (pc \in {"returned", "raised"}) =>
        /\ \E q \in 0..arg :
              /\ 64 * q <= arg
              /\ arg < 64 * (q + 1)
              /\ lastIcon.border_width = (IF q >= 1 THEN q ELSE 1)
        /\ (arg < 128) => lastIcon.border_width = 1
        /\ lastIcon.border_width # 0
        /\ (arg = 1024) => lastIcon.border_width = 16
        /\ lastIcon.ops[1].op = "rectangle"
        /\ lastIcon.ops[1].width = lastIcon.border_width

C7_Witness ==
    /\ pc = "returned"
    /\ arg = 1024
    /\ lastIcon.border_width = 16

\* C8: for every size > 0 the shadow offset is max(1, size // 128), so it is
\* at least 1 and the shadow is drawn for every size, before the white label.
C8_ShadowOffset ==
    (pc \in {"returned", "raised"} /\ SaveReached) =>
        /\ \E q \in 0..arg :
              /\ 128 * q <= arg
              /\ arg < 128 * (q + 1)
              /\ lastIcon.shadow_offset = (IF q >= 1 THEN q ELSE 1)
        /\ lastIcon.shadow_offset >= 1
        /\ Len(lastIcon.ops) = 3
        /\ lastIcon.ops[2].op = "text"
        /\ lastIcon.ops[2].fill = <<0, 0, 0, 100>>
        /\ lastIcon.ops[2].xy = <<lastIcon.x + lastIcon.shadow_offset,
                                  lastIcon.y + lastIcon.shadow_offset>>
        /\ lastIcon.ops[3].op = "text"
        /\ lastIcon.ops[3].fill = <<255, 255, 255, 255>>
        /\ lastIcon.ops[3].xy = <<lastIcon.x, lastIcon.y>>

C8_Witness ==
    /\ pc = "returned"
    /\ arg = 1024
    /\ lastIcon.shadow_offset = 8
    /\ Len(lastIcon.ops) = 3

\* C9: a failure of the save of the k-th icon ends the process: status not
\* 0, the exception uncaught, no retry and no later icon, neither the k-th
\* confirmation line nor the completion banner printed, the first k-1 files
\* as written.  The banner is printed only when all seven files are written.
C9_WriteFailurePropagates ==
    /\ (failedAt > 0) =>
          /\ pc = "exited"
          /\ exitStatus # 0
          /\ uncaught = "OSError"
          /\ calls = SubSeq(SizeList, 1, failedAt)
          /\ CreatedLine(SizeList[failedAt], IconFile(SizeList[failedAt]))
                \notin Range(stdout)
          /\ SuccessLine \notin Range(stdout)
          /\ \A j \in 1..(failedAt - 1) :
                /\ files[IconFile(SizeList[j])] = Square(SizeList[j])
                /\ CreatedLine(SizeList[j], IconFile(SizeList[j]))
                      \in Range(stdout)
    /\ (SuccessLine \in Range(stdout)) =>
          /\ written = {IconFile(s) : s \in SevenSizes}
          /\ \A s \in SevenSizes :
                /\ IconFile(s) \in DOMAIN files
                /\ files[IconFile(s)] = Square(s)

C9_Witness ==
    /\ failedAt = 4
    /\ pc = "exited"
    /\ exitStatus = 1
    /\ Len(calls) = 4
    /\ Cardinality(written) = 3

\* C10: the font size asked for is size // 8 from 128 up, size // 6 from 64
\* up, size // 4 below; the load is attempted on the first existing path of
\* the list and on no other; the built-in default font is used exactly when
\* no path exists or that one load fails.
C10_FontSelection ==
    (pc \in {"returned", "raised"}) =>
        LET first == IF font_paths[1] \in fontExists THEN <<font_paths[1]>>
                     ELSE IF font_paths[2] \in fontExists THEN <<font_paths[2]>>
                     ELSE IF font_paths[3] \in fontExists THEN <<font_paths[3]>>
                     ELSE <<>>
            loadFails ==
                /\ first # <<>>
                /\ Truetype(first[1], lastIcon.font_size, truetypeEnv).raised
                      # "none"
        IN  /\ (arg >= 128) => 8 * lastIcon.font_size <= arg
                               /\ arg < 8 * (lastIcon.font_size + 1)
            /\ (arg >= 64 /\ arg < 128) => 6 * lastIcon.font_size <= arg
                               /\ arg < 6 * (lastIcon.font_size + 1)
            /\ (arg < 64) => 4 * lastIcon.font_size <= arg
                               /\ arg < 4 * (lastIcon.font_size + 1)
            /\ lastIcon.attempted = first
            /\ (lastIcon.font = LoadDefault) <=> (first = <<>> \/ loadFails)

====
